---- MODULE Spec2Model ----
(***************************************************************************)
(* A model of the gratefulset controller: the revision hash of             *)
(* gsp.rs (ImmutableSts), the GratefulSet reconciler of gs.rs, its earlier *)
(* revision in manager.rs, and the GratefulSetPool reconciler of gsp.rs,   *)
(* acting on an API store of Pools, StatefulSets and lease ConfigMaps.     *)
(*                                                                         *)
(* Option<i32> is an integer with NONE for None; an Option<Vec<_>> or      *)
(* Option<BTreeMap<_,_>> that the code only iterates is a sequence (None   *)
(* and empty are iterated alike); a field the code hashes or compares      *)
(* whole is an opaque integer.                                             *)
(***************************************************************************)
EXTENDS Integers, Sequences, FiniteSets, TLC

\* ------------------------------------------------------------------ bounds

\* Largest desired replica count of the GratefulSet in an initial state.
MaxD == 2
\* Largest replica count of a Pool observed in an initial state.
MaxInitReplicas == 2
\* Cap of a Pool's replica count in the guards of the scaling steps.
MaxReplicas == 3

\* ------------------------------------------------------------ data model

\* Option::None of an integer field.
NONE == -1

\* The u16 of ImmutableSts::checksum.
U16 == 65536

\* k8s ObjectMeta of a volume claim template, the fields the hash reads.
Metadata0 ==
  [ annotations |-> 0, cluster_name |-> 0, deletion_grace_period_seconds |-> 0,
    finalizers |-> 0, generate_name |-> 0, labels |-> 0, name |-> 0,
    namespace |-> 0,
    \* a field of ObjectMeta the hash does not read
    resource_version |-> 0 ]

LabelSelector0 == [ match_expressions |-> << >>, match_labels |-> 0 ]

\* PersistentVolumeClaim: metadata and spec (has_spec: spec is Some;
\* has_resources: spec.resources is Some).
Vct0 ==
  [ metadata |-> Metadata0,
    has_spec |-> TRUE,
    access_modes |-> 0,
    has_resources |-> TRUE,
    limits |-> << <<1, 1>> >>,
    requests |-> << <<1, 1>> >>,
    has_selector |-> TRUE,
    selector |-> LabelSelector0,
    storage_class_name |-> 0,
    volume_mode |-> 0,
    volume_name |-> 0 ]

\* PodTemplateSpec: has_spec is template.spec being Some.
PodTemplate0 ==
  [ image |-> 0, has_spec |-> TRUE, init_containers |-> << >>, volumes |-> << >> ]

\* StatefulSetSpec (k8s_openapi::api::apps::v1::StatefulSetSpec).
StsSpec0 ==
  [ pod_management_policy |-> 0,
    replicas |-> NONE,
    revision_history_limit |-> 0,
    selector |-> [ match_expressions |-> << [key |-> 1, operator |-> 1, values |-> 1] >>,
                   match_labels |-> 0 ],
    service_name |-> 0,
    template |-> PodTemplate0,
    update_strategy |-> 0,
    volume_claim_templates |-> << Vct0 >> ]

\* ------------------------------------------------- gsp.rs: RevisionHasher

\* for x in match_expressions { key.hash; operator.hash; values.hash }
RECURSIVE HashExprs(_)
HashExprs(xs) ==
  IF xs = << >> THEN << >>
  ELSE << Head(xs).key, Head(xs).operator, Head(xs).values >> \o HashExprs(Tail(xs))

\* for (k, v) in map { k.hash; v.0.as_str().hash }
RECURSIVE HashQuantities(_)
HashQuantities(m) ==
  IF m = << >> THEN << >>
  ELSE << Head(m)[1], Head(m)[2] >> \o HashQuantities(Tail(m))

\* The resources of one claim template, as the hasher is fed them.
HashResources(x) ==
  IF x.has_resources
  THEN HashQuantities(x.limits) \o HashQuantities(x.limits)
  ELSE << >>

\* One volume claim template, as the hasher is fed it.
HashVct(x) ==
  << x.metadata.annotations, x.metadata.cluster_name,
     x.metadata.deletion_grace_period_seconds, x.metadata.finalizers,
     x.metadata.generate_name, x.metadata.labels, x.metadata.name,
     x.metadata.namespace >>
  \o (IF x.has_spec
      THEN << x.access_modes >>
           \o HashResources(x)
           \o (IF x.has_selector
               THEN HashExprs(x.selector.match_expressions)
                    \o << x.selector.match_labels >>
               ELSE << >>)
           \o << x.storage_class_name, x.volume_mode, x.volume_name >>
      ELSE << >>)

RECURSIVE HashVcts(_)
HashVcts(xs) ==
  IF xs = << >> THEN << >> ELSE HashVct(Head(xs)) \o HashVcts(Tail(xs))

\* A hasher that writes the replicas as well.
ImmutableStsHash_with_replicas(s) ==
  << s.pod_management_policy, s.revision_history_limit >>
  \o HashExprs(s.selector.match_expressions)
  \o << s.selector.match_labels, s.service_name >>
  \o HashVcts(s.volume_claim_templates)
  \o << s.replicas >>

\* impl Hash for ImmutableSts: the sequence of values written to the hasher.
ImmutableStsHash(s) ==
  << s.pod_management_policy, s.revision_history_limit >>
  \o HashExprs(s.selector.match_expressions)
  \o << s.selector.match_labels, s.service_name >>
  \o HashVcts(s.volume_claim_templates)

\* The state of the hasher after the first n of the written values ws
\* (a stand-in for SipHash that depends on every value and on their order).
RECURSIVE Written(_, _)
Written(ws, n) ==
  IF n = 0 THEN 7 ELSE (Written(ws, n - 1) * 31 + ws[n] + 2) % U16

\* ImmutableSts::checksum: the hasher's finish(), cut to 16 bits.
checksum(s) ==
  LET ws == ImmutableStsHash(s) IN Written(ws, Len(ws))

\* format!("{:x}", u16)
HexDigit ==
  << "0", "1", "2", "3", "4", "5", "6", "7", "8", "9", "a", "b", "c", "d", "e", "f" >>

RECURSIVE Hex(_)
Hex(n) ==
  IF n < 16 THEN HexDigit[n + 1]
  ELSE Hex(n \div 16) \o HexDigit[(n % 16) + 1]

\* ------------------------------------------------------ gsp.rs: Pool spec

\* pub fn without_replicas(spec)
without_replicas(spec) == [spec EXCEPT !.replicas = NONE]

\* std::cmp::max
max(a, b) == IF a >= b THEN a ELSE b

\* std::cmp::min
min(a, b) == IF a <= b THEN a ELSE b

\* Option::unwrap_or
unwrap_or(o, d) == IF o = NONE THEN d ELSE o

\* GratefulSetPoolSpec::delta_replicas, on the StatefulSet spec of the Pool
delta_replicas(sts_spec, n) ==
  [sts_spec EXCEPT !.replicas = IF @ = NONE THEN NONE ELSE max(0, @ + n)]

\* GratefulSetPoolSpec::lock_dir
lock_dir == "/locks"

\* GratefulSetPoolSpec::lock_volume
lock_volume == "pikach.us" \o "-locks"

\* GratefulSetPoolSpec::configmap_name
configmap_name(spec) == spec.name \o "-lock"

\* The init-container that with_lock pushes.
UnlockerContainer ==
  [ name |-> "gsp-unlocker",
    working_dir |-> lock_dir,
    volume_mounts |-> << [mount_path |-> lock_dir, name |-> lock_volume] >> ]

\* The volume that with_lock pushes: its config_map.name is set, its own name
\* is left at Default (the empty string).
LockVolume == [ name |-> "", config_map |-> lock_volume ]

\* GratefulSetPoolSpec::with_lock
with_lock(spec) ==
  IF spec.sts_spec.template.has_spec
  THEN [spec.sts_spec EXCEPT
          !.template.init_containers = Append(@, UnlockerContainer),
          !.template.volumes = Append(@, LockVolume)]
  ELSE spec.sts_spec

\* GratefulSetPoolSpec::configmap: the data keys of the desired lease ConfigMap
\* (the ordinals 0..replicas-1, each written as x.to_string()).
configmap(spec) ==
  [ name |-> configmap_name(spec),
    keys |-> { ToString(x) : x \in 0 .. (unwrap_or(spec.sts_spec.replicas, 1) - 1) },
    owner_label |-> spec.name ]

\* -------------------------------------------------- gs.rs: GratefulSet

\* GratefulSetPoolStatus of a Pool nobody has written a status to.
NoStatus == [ ready_replicas |-> NONE ]

\* A Pool named after the GratefulSet spec alone, without the revision hash.
pool_named_without_hash(spec) ==
  [ name |-> spec.name,
    owner_kind |-> "GratefulSet",
    label |-> spec.name,
    spec |-> [ name |-> "", sts_spec |-> spec.sts_spec ],
    status |-> NoStatus ]

\* GratefulSetSpec::pool: the Pool a GratefulSet spec asks for.
pool(spec) ==
  LET name == spec.name \o "-" \o Hex(checksum(spec.sts_spec)) IN
  [ name |-> name,
    owner_kind |-> "GratefulSet",
    label |-> name,
    spec |-> [ name |-> "", sts_spec |-> spec.sts_spec ],
    status |-> NoStatus ]

\* The label selector of the reconcilers' list call: owner.pikach.us=<name>.
LabelSelected(store, name) == { n \in DOMAIN store : store[n].label = name }

\* The orders in which the API may return the objects named in S.
Orders(store, S) ==
  { [i \in 1 .. Cardinality(S) |-> store[f[i]]] :
      f \in { g \in [1 .. Cardinality(S) -> S] :
                \A i, j \in 1 .. Cardinality(S) : g[i] = g[j] => i = j } }

\* The fold of reconcile that separates the listed Pools into
\* (old_pools, cur_pool), starting from (vec![], want).
RECURSIVE Separate(_, _, _)
Separate(acc, lst, desired_hash) ==
  IF lst = << >> THEN acc
  ELSE LET p == Head(lst) IN
       Separate(IF desired_hash # checksum(p.spec.sts_spec)
                THEN [acc EXCEPT !.old_pools = Append(@, p)]
                ELSE [acc EXCEPT !.cur_pool = p],
                Tail(lst), desired_hash)

\* status.and_then(|s| s.sts_status.ready_replicas).unwrap_or(0)
ReadyOf(p) == unwrap_or(p.status.ready_replicas, 0)

\* let total_ready = old_pools.iter().fold(ready(cur_pool), ...)
RECURSIVE SumReady(_, _)
SumReady(acc, xs) ==
  IF xs = << >> THEN acc ELSE SumReady(acc + ReadyOf(Head(xs)), Tail(xs))

total_ready(old_pools, cur_pool) == SumReady(ReadyOf(cur_pool), old_pools)

\* let total_desired = gs.spec.sts_spec.replicas.unwrap_or(1)
total_desired(g) == unwrap_or(g.spec.sts_spec.replicas, 1)

\* The first test of reconcile: the current Pool has the GratefulSet's spec.
cur_is_desired(cur_pool, g) == cur_pool.spec.sts_spec = g.spec.sts_spec

\* The second test of reconcile, as written: replicas > Some(0) and the
\* wanted spec equal to the current one apart from replicas.
wants_template_patch(want, cur_pool) ==
  /\ cur_pool.spec.sts_spec.replicas > 0
  /\ without_replicas(want.spec.sts_spec) = without_replicas(cur_pool.spec.sts_spec)

\* The Pool patched by that branch: want's spec with the current replicas.
template_patch(want, cur_pool) ==
  [cur_pool EXCEPT
     !.spec = [want.spec EXCEPT !.sts_spec.replicas = cur_pool.spec.sts_spec.replicas]]

\* gs.rs: the closure of the scale-down fold over old_pools. `updated` is
\* built and dropped: the closure returns None for every Pool.
gs_pick(x) == << >>

\* manager.rs: the same closure returns Some(updated) for a Pool with
\* replicas > 0.
manager_pick(x) ==
  LET reps == unwrap_or(x.spec.sts_spec.replicas, 1) IN
  IF reps > 0 THEN << [x EXCEPT !.spec.sts_spec.replicas = reps - 1] >> ELSE << >>

\* old_pools.iter().fold(None, |acc, x| acc.or_else(|| closure(x)))
RECURSIVE gs_fold(_, _)
gs_fold(acc, xs) ==
  IF xs = << >> THEN acc
  ELSE gs_fold(IF acc # << >> THEN acc ELSE gs_pick(Head(xs)), Tail(xs))

RECURSIVE manager_fold(_, _)
manager_fold(acc, xs) ==
  IF xs = << >> THEN acc
  ELSE manager_fold(IF acc # << >> THEN acc ELSE manager_pick(Head(xs)), Tail(xs))

\* .unwrap_or_else(|| { let mut x = cur_pool.clone(); x.spec.delta_replicas(-1); x })
or_cur_minus_one(picked, cur_pool) ==
  IF picked # << >> THEN picked[1]
  ELSE [cur_pool EXCEPT !.spec.sts_spec = delta_replicas(@, -1)]

\* gs.rs: delta_pool of the scale-down branch
gs_delta_pool(old_pools, cur_pool) ==
  or_cur_minus_one(gs_fold(<< >>, old_pools), cur_pool)

\* manager.rs: delta_pool of the scale-down branch
manager_delta_pool(old_pools, cur_pool) ==
  or_cur_minus_one(manager_fold(<< >>, old_pools), cur_pool)

\* The Pool patched by the scale-up branch.
scale_up_pool(cur_pool) == [cur_pool EXCEPT !.spec.sts_spec = delta_replicas(@, 1)]

\* Duration::from_secs(300)
RequeueSecs == 300

\* What one invocation of reconcile does, given the GratefulSet g, the listed
\* Pools lst and the delta_pool of its scale-down branch: the branch taken,
\* the Pools deleted, the Pool patched (none or one) and requeue_after.
Outcome(g, lst, want, sep, delta_pool) ==
  LET old_pools == sep.old_pools
      cur_pool == sep.cur_pool
  IN
  IF cur_is_desired(cur_pool, g)
  THEN [ branch |-> "delete_old",
         deleted |-> { old_pools[i].name : i \in 1 .. Len(old_pools) },
         patch |-> << >>, requeue_after |-> NONE ]
  ELSE IF wants_template_patch(want, cur_pool)
  THEN [ branch |-> "patch_template", deleted |-> {},
         patch |-> << template_patch(want, cur_pool) >>, requeue_after |-> NONE ]
  ELSE IF total_ready(old_pools, cur_pool) >= total_desired(g)
  THEN [ branch |-> "scale_down", deleted |-> {},
         patch |-> << delta_pool >>, requeue_after |-> RequeueSecs ]
  ELSE [ branch |-> "scale_up", deleted |-> {},
         patch |-> << scale_up_pool(cur_pool) >>, requeue_after |-> RequeueSecs ]

\* let mut want = gs.spec.pool(); want.spec.sts_spec.replicas = Some(0);
Want(g) == [pool(g.spec) EXCEPT !.spec.sts_spec.replicas = 0]

\* gs.rs: reconcile
gs_reconcile(g, lst) ==
  LET want == Want(g)
      sep == Separate([old_pools |-> << >>, cur_pool |-> want], lst,
                      checksum(want.spec.sts_spec))
  IN Outcome(g, lst, want, sep, gs_delta_pool(sep.old_pools, sep.cur_pool))

\* manager.rs: reconcile
manager_reconcile(g, lst) ==
  LET want == Want(g)
      sep == Separate([old_pools |-> << >>, cur_pool |-> want], lst,
                      checksum(want.spec.sts_spec))
  IN Outcome(g, lst, want, sep, manager_delta_pool(sep.old_pools, sep.cur_pool))

\* pools.patch(name, PatchParams::apply(..), body): server-side apply of a Pool.
\* The object is created when no object has the name; the status of an
\* existing object is not part of what is applied.
ApplyPool(store, body) ==
  IF body.name \in DOMAIN store
  THEN [store EXCEPT ![body.name] = [body EXCEPT !.status = store[body.name].status]]
  ELSE [ n \in DOMAIN store \cup {body.name} |->
           IF n = body.name THEN [body EXCEPT !.status = NoStatus] ELSE store[n] ]

\* A delete loop that deletes nothing.
DeletePools_none(store, S) == store

\* pools.delete(name, ..) for each name of S.
DeletePools(store, S) == [ n \in DOMAIN store \ S |-> store[n] ]

\* The Pools after the API calls of an outcome.
Applied(store, out) ==
  IF out.patch = << >> THEN DeletePools(store, out.deleted)
  ELSE ApplyPool(DeletePools(store, out.deleted), out.patch[1])

\* ------------------------------------------- gsp.rs: the Pool reconciler

\* Duration::from_secs(60) of error_policy
ErrorRequeueSecs == 60

\* found.spec.replicas.unwrap_or(1)
found_spec_replicas(found) == unwrap_or(found.spec.replicas, 1)

\* A reading of the current replicas that takes them from the spec.
found_current_replicas_from_spec(found) == unwrap_or(found.spec.replicas, 1)

\* found.status.current_replicas.unwrap_or(0)
found_current_replicas(found) == unwrap_or(found.status.current_replicas, 0)

\* A drift patch that carries the Pool's replicas.
drift_patch_with_desired_replicas(gsp, found) == with_lock(gsp.spec)

\* The spec of the drift patch: the desired spec with the found replicas.
drift_patch(gsp, found) ==
  [without_replicas(with_lock(gsp.spec)) EXCEPT !.replicas = found.spec.replicas]

\* A scale-up patch that carries the Pool's replicas.
scale_up_patch_with_replicas(gsp) == with_lock(gsp.spec)

\* The spec of the scale-up patch: { "spec": desired_sans_replicas }.
scale_up_patch(gsp) == without_replicas(with_lock(gsp.spec))

\* sts.patch(name, PatchParams::apply(..), {"spec": body}): a field the body
\* leaves out (replicas: None is not serialized) keeps the value it has.
ApplySts(found, body) ==
  [found EXCEPT !.spec =
     IF body.replicas = NONE THEN [body EXCEPT !.replicas = found.spec.replicas]
     ELSE body]

\* What one invocation of the Pool reconciler does for the Pool gsp, given the
\* StatefulSets sts_store: the branch taken, the StatefulSet after it (none
\* or one), the lease ConfigMap it applies (none or one) and requeue_after.
gsp_reconcile(gsp, sts_store) ==
  IF gsp.name \notin DOMAIN sts_store
  THEN [ branch |-> "error", sts |-> << >>, cm |-> << >>,
         requeue_after |-> ErrorRequeueSecs ]
  ELSE
  LET found == sts_store[gsp.name]
      desired_sans_replicas == without_replicas(with_lock(gsp.spec))
      desired_replicas == unwrap_or(gsp.spec.sts_spec.replicas, 1)
  IN
  IF with_lock(gsp.spec) = found.spec
  THEN [ branch |-> "noop", sts |-> << >>, cm |-> << >>, requeue_after |-> NONE ]
  ELSE IF without_replicas(found.spec) # desired_sans_replicas
  THEN [ branch |-> "drift", sts |-> << ApplySts(found, drift_patch(gsp, found)) >>,
         cm |-> << >>, requeue_after |-> NONE ]
  ELSE IF found_spec_replicas(found) # found_current_replicas(found)
  THEN [ branch |-> "rollout", sts |-> << >>, cm |-> << >>, requeue_after |-> NONE ]
  ELSE IF desired_replicas > found_spec_replicas(found)
  THEN [ branch |-> "scale_up", sts |-> << ApplySts(found, scale_up_patch(gsp)) >>,
         cm |-> << configmap(gsp.spec) >>, requeue_after |-> NONE ]
  ELSE [ branch |-> "scale_down", sts |-> << >>, cm |-> << >>,
         requeue_after |-> RequeueSecs ]

\* ------------------------------------------------------------ the system

VARIABLES
  gs,     \* the GratefulSet object
  pools,  \* the GratefulSetPool objects of the API, by name
  stss,   \* the StatefulSet objects of the API, by name
  cms,    \* the lease ConfigMaps of the API: name -> set of data keys
  last,   \* the last step: who took it, its branch, what it touched
  hs      \* a pair of StatefulSet specs handed to the revision hasher

vars == << gs, pools, stss, cms, last, hs >>

\* StatefulSet specs of the model's runs: T0, the same with another pod
\* image (a mutable field), with other resource requests, and with another
\* storage class (T1, T2).
T0 == StsSpec0
T0img == [T0 EXCEPT !.template.image = 1]
T0req == [T0 EXCEPT !.volume_claim_templates[1].requests = << <<1, 2>> >>]
T1 == [T0 EXCEPT !.volume_claim_templates[1].storage_class_name = 1]
T2 == [T0 EXCEPT !.volume_claim_templates[1].storage_class_name = 2]

GsName == "db"

\* GratefulSetStatus of a GratefulSet nobody has written a status to.
NoGsStatus == [ replicas |-> NONE ]

\* A GratefulSet named db with template t and replicas d.
GratefulSet(t, d) ==
  [ name |-> GsName,
    spec |-> [ name |-> GsName, sts_spec |-> [t EXCEPT !.replicas = d] ],
    status |-> NoGsStatus ]

\* A Pool the list call returns: made for template t as pool() names it,
\* labelled with the name of the GratefulSet, at r replicas, ready_replicas rd.
ObservedPool(t, r, rd) ==
  [pool([name |-> GsName, sts_spec |-> t]) EXCEPT
     !.label = GsName,
     !.spec.sts_spec.replicas = r,
     !.status = [ready_replicas |-> rd]]

\* The observed Pools of template t: none, or one at 0..MaxInitReplicas
\* replicas whose status is unset or, with replicas, reports all of them ready.
InitPoolChoices(t) ==
  { << >> } \cup
  { << ObservedPool(t, r, NONE) >> : r \in 0 .. MaxInitReplicas } \cup
  { << ObservedPool(t, r, r) >> : r \in 1 .. MaxInitReplicas }

\* The StatefulSet of a Pool in an initial state: "absent"; "locked": the
\* Pool's spec with the lease injected, all replicas current and ready;
\* "plain": the Pool's spec without the lease, no replica current yet (drawn
\* for the initial states of a single Pool).
InitSts(p, mode) ==
  IF mode = "locked"
  THEN [ spec |-> with_lock(p.spec),
         status |-> [ current_replicas |-> unwrap_or(p.spec.sts_spec.replicas, 1),
                      ready_replicas |-> unwrap_or(p.spec.sts_spec.replicas, 1) ] ]
  ELSE [ spec |-> p.spec.sts_spec,
         status |-> [ current_replicas |-> 0, ready_replicas |-> 0 ] ]

\* The value of last before any step.
NoStep == [ who |-> "init", branch |-> "", target |-> "", requeue_after |-> NONE ]

\* The value of hs in the runs of the reconcilers.
NoScenario == [ stage |-> "none" ]

Init ==
  /\ \E t \in {T0, T0img, T0req}, d \in 0 .. MaxD : gs = GratefulSet(t, d)
  /\ \E c \in InitPoolChoices(T0),
        o1 \in InitPoolChoices(T1),
        o2 \in { << >>, << ObservedPool(T2, 1, 1) >> } :
       \E ps \in { c \o o1 \o o2 } :
       \E mode \in {"absent", "locked"} \cup (IF Len(ps) = 1 THEN {"plain"} ELSE {}) :
       LET names == { ps[i].name : i \in 1 .. Len(ps) }
           byName(n) == CHOOSE i \in 1 .. Len(ps) : ps[i].name = n
       IN /\ pools = [ n \in names |-> ps[byName(n)] ]
          /\ stss = IF mode = "absent" THEN [ n \in {} |-> 0 ]
                    ELSE [ n \in names |-> InitSts(ps[byName(n)], mode) ]
  /\ cms = [ n \in {} |-> {} ]
  /\ last = NoStep
  /\ hs = NoScenario

\* The name of the patched Pool of an outcome ("" when it patches none).
TargetOf(out) == IF out.patch = << >> THEN "" ELSE out.patch[1].name

\* A Pool outcome stays within the model's cap on replica counts.
WithinCap(out) ==
  out.patch # << >> => out.patch[1].spec.sts_spec.replicas <= MaxReplicas

\* gs.rs: one invocation of the GratefulSet reconciler.
GsReconcile ==
  \E lst \in Orders(pools, LabelSelected(pools, gs.name)) :
    \E out \in {gs_reconcile(gs, lst)} :
    /\ WithinCap(out)
    /\ pools' = Applied(pools, out)
    /\ last' = [ who |-> "gs", branch |-> out.branch, target |-> TargetOf(out),
                 requeue_after |-> out.requeue_after ]
    /\ UNCHANGED << gs, stss, cms, hs >>

\* manager.rs: one invocation of the GratefulSet reconciler.
ManagerReconcile ==
  \E lst \in Orders(pools, LabelSelected(pools, gs.name)) :
    \E out \in {manager_reconcile(gs, lst)} :
    /\ WithinCap(out)
    /\ pools' = Applied(pools, out)
    /\ last' = [ who |-> "manager", branch |-> out.branch, target |-> TargetOf(out),
                 requeue_after |-> out.requeue_after ]
    /\ UNCHANGED << gs, stss, cms, hs >>

\* The lease ConfigMaps after configmaps.patch(name, apply, locks).
ApplyCm(store, cm) ==
  [ n \in DOMAIN store \cup {cm.name} |-> IF n = cm.name THEN cm.keys ELSE store[n] ]

\* gsp.rs: one invocation of the Pool reconciler, for the Pool named n.
GspReconcile(n) ==
  \E out \in {gsp_reconcile(pools[n], stss)} :
  /\ stss' = IF out.sts = << >> THEN stss ELSE [stss EXCEPT ![n] = out.sts[1]]
  /\ cms' = IF out.cm = << >> THEN cms ELSE ApplyCm(cms, out.cm[1])
  /\ last' = [ who |-> "gsp", branch |-> out.branch, target |-> n,
               requeue_after |-> out.requeue_after ]
  /\ UNCHANGED << gs, pools, hs >>

\* The StatefulSet controller of the cluster brings one more replica of the
\* StatefulSet named n up (or down) towards spec.replicas and reports it.
StsStep(n) ==
  LET want == unwrap_or(stss[n].spec.replicas, 1)
      cur == stss[n].status.current_replicas
      nxt == IF cur < want THEN cur + 1 ELSE cur - 1
  IN
  /\ cur # want
  /\ stss' = [stss EXCEPT ![n].status = [current_replicas |-> nxt, ready_replicas |-> nxt]]
  /\ last' = [ who |-> "sts", branch |-> "", target |-> n, requeue_after |-> NONE ]
  /\ UNCHANGED << gs, pools, cms, hs >>

PoolStep == \E n \in DOMAIN pools : GspReconcile(n)

ClusterStep == \E n \in DOMAIN stss : StsStep(n)

Next == GsReconcile \/ PoolStep \/ ClusterStep

Spec == Init /\ [][Next]_vars

NextManager == ManagerReconcile \/ PoolStep \/ ClusterStep

SpecManager == Init /\ [][NextManager]_vars

\* The lease ConfigMaps beside a StatefulSet of q replicas that carries the
\* lease: the one of the Pool p, with the ordinals 0..q-1.
InitLease(p, q) ==
  LET cm == configmap([p.spec EXCEPT !.sts_spec.replicas = q])
  IN [ n \in {cm.name} |-> cm.keys ]

\* One Pool of the GratefulSet and what the Pool reconciler may find for it:
\* no StatefulSet; a StatefulSet of q replicas without the lease ("plain");
\* or one of q replicas with the lease injected and the lease ConfigMap of
\* its q ordinals ("locked"). q may be below, at or above the Pool's replicas.
InitPool ==
  /\ \E t \in {T0, T0img}, d \in 0 .. MaxD : gs = GratefulSet(t, d)
  /\ \E c \in { << ObservedPool(T0, r, NONE) >> : r \in 0 .. MaxInitReplicas } :
     \E p \in { c[1] } :
     \E mode \in {"absent", "plain", "locked"}, q \in 0 .. MaxInitReplicas :
       /\ mode = "absent" => q = 0
       /\ pools = [ n \in {p.name} |-> p ]
       /\ stss = IF mode = "absent" THEN [ n \in {} |-> 0 ]
                 ELSE [ n \in {p.name} |->
                          InitSts([p EXCEPT !.spec.sts_spec.replicas = q], mode) ]
       /\ cms = IF mode = "locked" THEN InitLease(p, q) ELSE [ n \in {} |-> {} ]
  /\ last = NoStep
  /\ hs = NoScenario

SpecPool == InitPool /\ [][Next]_vars

\* ------------------------------------------ the revision hasher on its own

\* How many values a field is perturbed to.
MaxValues == 2

\* The fields of §4.1 that the revision is meant to depend on.
ImmutableFields ==
  { "pod_management_policy", "revision_history_limit",
    "selector.match_expressions.key", "selector.match_expressions.operator",
    "selector.match_expressions.values", "selector.match_labels", "service_name",
    "vct.metadata.annotations", "vct.metadata.cluster_name",
    "vct.metadata.deletion_grace_period_seconds", "vct.metadata.finalizers",
    "vct.metadata.generate_name", "vct.metadata.labels", "vct.metadata.name",
    "vct.metadata.namespace", "vct.access_modes", "vct.resources.limits",
    "vct.resources.requests", "vct.selector.match_expressions",
    "vct.selector.match_labels", "vct.storage_class_name", "vct.volume_mode",
    "vct.volume_name" }

\* The fields the revision is meant not to depend on.
MutableFields == { "replicas", "template", "update_strategy" }

\* The spec s with the field f alone set to v.
Perturb(s, f, v) ==
  CASE f = "pod_management_policy" -> [s EXCEPT !.pod_management_policy = v]
    [] f = "revision_history_limit" -> [s EXCEPT !.revision_history_limit = v]
    [] f = "selector.match_expressions.key" ->
         [s EXCEPT !.selector.match_expressions[1].key = v]
    [] f = "selector.match_expressions.operator" ->
         [s EXCEPT !.selector.match_expressions[1].operator = v]
    [] f = "selector.match_expressions.values" ->
         [s EXCEPT !.selector.match_expressions[1].values = v]
    [] f = "selector.match_labels" -> [s EXCEPT !.selector.match_labels = v]
    [] f = "service_name" -> [s EXCEPT !.service_name = v]
    [] f = "vct.metadata.annotations" ->
         [s EXCEPT !.volume_claim_templates[1].metadata.annotations = v]
    [] f = "vct.metadata.cluster_name" ->
         [s EXCEPT !.volume_claim_templates[1].metadata.cluster_name = v]
    [] f = "vct.metadata.deletion_grace_period_seconds" ->
         [s EXCEPT !.volume_claim_templates[1].metadata.deletion_grace_period_seconds = v]
    [] f = "vct.metadata.finalizers" ->
         [s EXCEPT !.volume_claim_templates[1].metadata.finalizers = v]
    [] f = "vct.metadata.generate_name" ->
         [s EXCEPT !.volume_claim_templates[1].metadata.generate_name = v]
    [] f = "vct.metadata.labels" ->
         [s EXCEPT !.volume_claim_templates[1].metadata.labels = v]
    [] f = "vct.metadata.name" ->
         [s EXCEPT !.volume_claim_templates[1].metadata.name = v]
    [] f = "vct.metadata.namespace" ->
         [s EXCEPT !.volume_claim_templates[1].metadata.namespace = v]
    [] f = "vct.access_modes" -> [s EXCEPT !.volume_claim_templates[1].access_modes = v]
    [] f = "vct.resources.limits" ->
         [s EXCEPT !.volume_claim_templates[1].limits = << <<1, v>> >>]
    [] f = "vct.resources.requests" ->
         [s EXCEPT !.volume_claim_templates[1].requests = << <<1, v>> >>]
    [] f = "vct.selector.match_expressions" ->
         [s EXCEPT !.volume_claim_templates[1].selector.match_expressions =
                     << [key |-> v, operator |-> 1, values |-> 1] >>]
    [] f = "vct.selector.match_labels" ->
         [s EXCEPT !.volume_claim_templates[1].selector.match_labels = v]
    [] f = "vct.storage_class_name" ->
         [s EXCEPT !.volume_claim_templates[1].storage_class_name = v]
    [] f = "vct.volume_mode" -> [s EXCEPT !.volume_claim_templates[1].volume_mode = v]
    [] f = "vct.volume_name" -> [s EXCEPT !.volume_claim_templates[1].volume_name = v]
    [] f = "replicas" -> [s EXCEPT !.replicas = v]
    [] f = "template" -> [s EXCEPT !.template.image = v]
    [] f = "update_strategy" -> [s EXCEPT !.update_strategy = v]

\* The values a field is perturbed to: 0 (as reconcile forces replicas to
\* Some(0)) and values no base spec holds.
PerturbValues == {0} \cup { 4 + i : i \in 1 .. MaxValues }

\* The base specs: T0, T0img and T1 at 3 replicas.
BaseSpecs == { [t EXCEPT !.replicas = 3] : t \in {T0, T0img, T1} }

InitHash ==
  /\ gs = GratefulSet(T0, 1)
  /\ pools = [ n \in {} |-> 0 ]
  /\ stss = [ n \in {} |-> 0 ]
  /\ cms = [ n \in {} |-> {} ]
  /\ last = NoStep
  /\ \E s \in BaseSpecs, f \in ImmutableFields \cup MutableFields, v \in PerturbValues :
       /\ Perturb(s, f, v) # s
       /\ hs = [ stage |-> "base", field |-> f, value |-> v, s1 |-> s, s2 |-> s,
                 h1 |-> checksum(s), h2 |-> checksum(s) ]

\* One field of the spec is changed and the revision is computed again.
HashPerturbed ==
  /\ hs.stage = "base"
  /\ \E s2 \in { Perturb(hs.s1, hs.field, hs.value) } :
       hs' = [hs EXCEPT !.stage = "perturbed", !.s2 = s2, !.h2 = checksum(s2)]
  /\ UNCHANGED << gs, pools, stss, cms, last >>

NextHash == HashPerturbed

SpecHash == InitHash /\ [][NextHash]_vars

\* ------------------------------------------------------------- properties

\* The listed Pools of the GratefulSet whose revision is not the desired one.
OldPools(ps) ==
  { n \in LabelSelected(ps, gs.name) :
      checksum(ps[n].spec.sts_spec) # checksum(gs.spec.sts_spec) }

\* The old Pools with replicas > 0.
OldPositive(ps) == { n \in OldPools(ps) : ps[n].spec.sts_spec.replicas > 0 }

\* The sum of f[n] over the names n of S.
RECURSIVE SumOver(_, _)
SumOver(f, S) ==
  IF S = {} THEN 0
  ELSE LET n == CHOOSE m \in S : TRUE IN f[n] + SumOver(f, S \ {n})

\* The sum of the declared replicas of all Pools.
DeclaredTotal(ps) ==
  SumOver([ n \in DOMAIN ps |-> unwrap_or(ps[n].spec.sts_spec.replicas, 1) ], DOMAIN ps)

\* The sum of status.ready_replicas of all Pools.
ObservedReady(ps) == SumOver([ n \in DOMAIN ps |-> ReadyOf(ps[n]) ], DOMAIN ps)

\* The ready replicas the cluster shows once every StatefulSet has settled: the
\* sum of spec.replicas of the StatefulSets.
ReadyWhenSettled(ss) ==
  SumOver([ n \in DOMAIN ss |-> unwrap_or(ss[n].spec.replicas, 1) ], DOMAIN ss)

\* The sum of status.ready_replicas of the StatefulSets.
StsReady(ss) == SumOver([ n \in DOMAIN ss |-> ss[n].status.ready_replicas ], DOMAIN ss)

\* The current Pool exists alone, with the GratefulSet's spec.
Converged ==
  /\ DOMAIN pools = { Want(gs).name }
  /\ pools[Want(gs).name].spec.sts_spec = gs.spec.sts_spec

\* No invocation of the GratefulSet reconciler changes a Pool any more.
GsSettled ==
  \A lst \in Orders(pools, LabelSelected(pools, gs.name)) :
    \A out \in {gs_reconcile(gs, lst)} :
      WithinCap(out) /\ Applied(pools, out) = pools

\* No invocation of the Pool reconciler changes a StatefulSet or a lease.
PoolsSettled ==
  \A n \in DOMAIN pools :
    \A out \in {gsp_reconcile(pools[n], stss)} :
      /\ out.sts = << >> \/ out.sts[1] = stss[n]
      /\ out.cm = << >> \/ ApplyCm(cms, out.cm[1]) = cms

\* Every StatefulSet runs the replicas of its spec.
ClusterSettled ==
  \A n \in DOMAIN stss :
    stss[n].status.current_replicas = unwrap_or(stss[n].spec.replicas, 1)

\* No reconcile and no step of the cluster changes any object any more.
Settled == GsSettled /\ PoolsSettled /\ ClusterSettled

\* C1: for D >= 1, once the GratefulSet reconciler has run, the system comes
\* to rest only in a state where exactly one Pool exists, with the template
\* and the replicas of the GratefulSet (a state of rest that is not such a
\* state is never left, so from it the system never reaches one).
C1_RestsOnlyConverged ==
  (total_desired(gs) >= 1 /\ last.who = "gs" /\ Settled) => Converged

C3_CapacityLowerBound ==
  [][ last'.who \in {"gs", "manager"} =>
        DeclaredTotal(pools') >= min(total_desired(gs), ObservedReady(pools) - 1) ]_vars

\* C5: a step deletes Pools only in a state where no old Pool has replicas > 0.
C5_DeletesOnlyDrained ==
  [][ DOMAIN pools \ DOMAIN pools' # {} => OldPositive(pools) = {} ]_vars

\* C6: every Pool carries the label owner.pikach.us=<GratefulSet name>, so
\* the list of the next reconcile returns it.
C6_OwnerLabel ==
  \A n \in DOMAIN pools : pools[n].label = gs.name

\* C7: at most one Pool has the revision hash of the GratefulSet's template;
\* every Pool is named <GratefulSet-name>-<hex of its hash>, so Pools have
\* equal names exactly when they have equal hashes.
C7_UniqueCurrent ==
  /\ Cardinality({ n \in DOMAIN pools :
                     checksum(pools[n].spec.sts_spec) = checksum(gs.spec.sts_spec) }) <= 1
  /\ \A n \in DOMAIN pools :
       /\ pools[n].name = n
       /\ n = gs.spec.name \o "-" \o Hex(checksum(pools[n].spec.sts_spec))
  /\ \A n, m \in DOMAIN pools :
       (n = m) <=> (checksum(pools[n].spec.sts_spec) = checksum(pools[m].spec.sts_spec))

\* C7, the case: the reconciler has created the current Pool beside an old
\* one, and the GratefulSet's template differs from the current Pool's.
C7_Witness ==
  /\ Cardinality(DOMAIN pools) >= 2
  /\ \E n \in DOMAIN pools :
       /\ pools[n].label # gs.name
       /\ checksum(pools[n].spec.sts_spec) = checksum(gs.spec.sts_spec)
       /\ without_replicas(pools[n].spec.sts_spec) = without_replicas(gs.spec.sts_spec)
  /\ OldPools(pools) # {}

\* C8: two specs that differ in one field of the immutable set alone write
\* different values to the hasher.
C8_HashSensitive ==
  (hs.stage = "perturbed" /\ hs.field \in ImmutableFields)
    => ImmutableStsHash(hs.s1) # ImmutableStsHash(hs.s2)

\* C9: two specs that differ in replicas, template or update_strategy alone
\* have the same checksum (so has the wanted Pool, whose replicas are 0).
C9_HashInsensitive ==
  /\ (hs.stage = "perturbed" /\ hs.field \in MutableFields) => hs.h1 = hs.h2
  /\ hs.stage = "none" => checksum(Want(gs).spec.sts_spec) = checksum(gs.spec.sts_spec)

\* C9, the case: the replicas of a spec were set to 0 and nothing else.
C9_Witness ==
  /\ hs.stage = "perturbed" /\ hs.field = "replicas"
  /\ hs.s2.replicas = 0 /\ hs.s1.replicas = 3
  /\ hs.s2 = [hs.s1 EXCEPT !.replicas = 0]

\* C10: a scale-down step taken while an old Pool has replicas > 0 patches
\* such an old Pool to replicas - 1 and leaves every other Pool as it is.
C10_ScaleDownTargetsOld ==
  [][ (last'.who = "gs" /\ last'.branch = "scale_down" /\ OldPositive(pools) # {}) =>
        \E n \in OldPositive(pools) :
          /\ last'.target = n
          /\ pools' = [pools EXCEPT ![n].spec.sts_spec.replicas = @ - 1] ]_vars

\* The listed Pools that have the revision of the GratefulSet's template.
CurListed(ps) ==
  { n \in LabelSelected(ps, gs.name) :
      checksum(ps[n].spec.sts_spec) = checksum(gs.spec.sts_spec) }

\* ready_total: the sum of status.ready_replicas of the listed Pools.
ReadyTotal(ps) ==
  SumOver([ n \in DOMAIN ps |-> ReadyOf(ps[n]) ], LabelSelected(ps, gs.name))

\* C11: a reconcile that finds the current Pool at replicas r with 0 < r < D,
\* with the GratefulSet's template apart from replicas, and ready_total < D,
\* leaves that Pool at replicas r + 1.
C11_PureScaleUp ==
  [][ last'.who = "gs" =>
        \A n \in CurListed(pools) :
          ( /\ pools[n].spec.sts_spec.replicas > 0
            /\ pools[n].spec.sts_spec.replicas < total_desired(gs)
            /\ without_replicas(pools[n].spec.sts_spec) = without_replicas(gs.spec.sts_spec)
            /\ ReadyTotal(pools) < total_desired(gs) )
          => pools'[n].spec.sts_spec.replicas = pools[n].spec.sts_spec.replicas + 1 ]_vars

\* C12: for D >= 1, a reconcile that finds no Pool of the desired revision
\* (none listed, none of that name) creates the Pool <parent>-<hash> with
\* replicas 0 and leaves every other Pool as it is.
C12_FreshCreation ==
  [][ ( /\ last'.who = "gs"
        /\ total_desired(gs) >= 1
        /\ CurListed(pools) = {}
        /\ Want(gs).name \notin DOMAIN pools )
      => /\ DOMAIN pools' = DOMAIN pools \cup { Want(gs).name }
         /\ pools'[Want(gs).name].spec.sts_spec.replicas = 0
         /\ \A n \in DOMAIN pools : pools'[n] = pools[n] ]_vars

\* C13: a reconcile that finds the current Pool at replicas r > 0 with a
\* template that differs from the GratefulSet's in the pod template alone
\* leaves that Pool with the GratefulSet's template and replicas r, and
\* every other Pool as it is.
C13_TemplatePatchedInPlace ==
  [][ last'.who = "gs" =>
        \A n \in CurListed(pools) :
          ( /\ pools[n].spec.sts_spec.replicas > 0
            /\ pools[n].spec.sts_spec.template # gs.spec.sts_spec.template
            /\ [without_replicas(pools[n].spec.sts_spec) EXCEPT
                  !.template = gs.spec.sts_spec.template]
                 = without_replicas(gs.spec.sts_spec) )
          => pools' = [pools EXCEPT ![n].spec.sts_spec =
                         [gs.spec.sts_spec EXCEPT
                            !.replicas = pools[n].spec.sts_spec.replicas]] ]_vars

\* D' == O': the StatefulSet of the Pool n has the lease-injected spec of
\* the Pool, replicas apart.
DesiredIsObserved(n) ==
  /\ n \in DOMAIN stss
  /\ without_replicas(stss[n].spec) = without_replicas(with_lock(pools[n].spec))

\* The rollout of the StatefulSet of the Pool n is settled.
RolloutSettled(n) ==
  found_spec_replicas(stss[n]) = found_current_replicas(stss[n])

\* D.replicas of the Pool n.
DesiredReplicas(n) == unwrap_or(pools[n].spec.sts_spec.replicas, 1)

\* The data keys "0" .. "r-1".
Ordinals(r) == { ToString(x) : x \in 0 .. (r - 1) }

\* C14: a Pool reconcile for a Pool without StatefulSet creates the
\* StatefulSet with the lease-injected spec of the Pool and is no error.
C14_AbsentStsCreated ==
  [][ (last'.who = "gsp" /\ last'.target \notin DOMAIN stss) =>
        /\ last'.branch # "error"
        /\ last'.target \in DOMAIN stss'
        /\ stss'[last'.target].spec = with_lock(pools[last'.target].spec) ]_vars

\* C15: a Pool reconcile with D' == O', the rollout settled and
\* D.replicas > O.replicas leaves the lease ConfigMap with the keys
\* 0..D.replicas-1 and the StatefulSet with spec.replicas = D.replicas.
C15_PoolScaleUp ==
  [][ \A n \in DOMAIN pools :
        ( /\ last'.who = "gsp" /\ last'.target = n
          /\ DesiredIsObserved(n) /\ RolloutSettled(n)
          /\ DesiredReplicas(n) > found_spec_replicas(stss[n]) )
        => /\ configmap_name(pools[n].spec) \in DOMAIN cms'
           /\ cms'[configmap_name(pools[n].spec)] = Ordinals(DesiredReplicas(n))
           /\ stss'[n].spec.replicas = DesiredReplicas(n) ]_vars

\* C16: a Pool reconcile with D' == O', the rollout settled and
\* D.replicas < O.replicas leaves the lease ConfigMap without the key
\* O.replicas-1, and, where ready_replicas <= O.replicas-1 is observed,
\* the StatefulSet with spec.replicas = O.replicas-1.
C16_PoolScaleDown ==
  [][ \A n \in DOMAIN pools :
        ( /\ last'.who = "gsp" /\ last'.target = n
          /\ DesiredIsObserved(n) /\ RolloutSettled(n)
          /\ DesiredReplicas(n) < found_spec_replicas(stss[n]) )
        => /\ configmap_name(pools[n].spec) \in DOMAIN cms' =>
                ToString(found_spec_replicas(stss[n]) - 1)
                  \notin cms'[configmap_name(pools[n].spec)]
           /\ stss[n].status.ready_replicas <= found_spec_replicas(stss[n]) - 1 =>
                stss'[n].spec.replicas = found_spec_replicas(stss[n]) - 1 ]_vars

\* C17: a Pool of R >= 1 replicas whose StatefulSet has the lease-injected
\* spec of the Pool has its lease ConfigMap, with exactly the keys
\* "0" .. "R-1".
C17_LeaseAtSteadyState ==
  \A n \in DOMAIN pools \cap DOMAIN stss :
    (DesiredReplicas(n) >= 1 /\ with_lock(pools[n].spec) = stss[n].spec) =>
      /\ configmap_name(pools[n].spec) \in DOMAIN cms
      /\ cms[configmap_name(pools[n].spec)] = Ordinals(DesiredReplicas(n))

\* C18: after a Pool reconcile the ready replicas the GratefulSet reconciler
\* reads from the Pool's status are the ready replicas of its StatefulSet.
C18_PoolStatusReflected ==
  [][ \A n \in DOMAIN pools :
        (last'.who = "gsp" /\ last'.target = n /\ n \in DOMAIN stss') =>
          ReadyOf(pools'[n]) = stss'[n].status.ready_replicas ]_vars

\* C19: after a reconcile of the GratefulSet its status replicas (0 where
\* it has no status) are the sum of the replicas its listed Pools report in
\* their status.
C19_GsStatusSumsPools ==
  [][ last'.who = "gs" =>
        unwrap_or(gs'.status.replicas, 0) = ReadyTotal(pools') ]_vars

\* Nothing to do: the listed current Pool has the GratefulSet's spec and no
\* old Pool is listed.
Terminal(ps) ==
  /\ CurListed(ps) # {}
  /\ \A n \in CurListed(ps) : ps[n].spec.sts_spec = gs.spec.sts_spec
  /\ OldPools(ps) = {}

\* C20: a reconcile that finds nothing to do returns requeue_after 300 s,
\* and one that applies an action returns no requeue.
C20_RequeuePolicy ==
  [][ last'.who = "gs" =>
        last'.requeue_after = IF Terminal(pools) THEN RequeueSecs ELSE NONE ]_vars

\* C21: a Pool reconcile that finds a StatefulSet whose spec differs from
\* the lease-injected spec of the Pool in more than replicas leaves it with
\* that spec at the replicas it had, and leaves its status and the lease
\* ConfigMaps as they are.
C21_DriftKeepsReplicas ==
  [][ \A n \in DOMAIN pools :
        ( /\ last'.who = "gsp" /\ last'.target = n
          /\ n \in DOMAIN stss
          /\ without_replicas(stss[n].spec) # without_replicas(with_lock(pools[n].spec)) )
        => /\ stss'[n].spec = [with_lock(pools[n].spec) EXCEPT
                                 !.replicas = stss[n].spec.replicas]
           /\ stss'[n].status = stss[n].status
           /\ cms' = cms ]_vars

\* C21, the case: the drift patch was applied to a StatefulSet whose
\* replicas are not those of the Pool.
C21_Witness ==
  /\ last.who = "gsp" /\ last.branch = "drift"
  /\ DesiredIsObserved(last.target)
  /\ DesiredReplicas(last.target) # found_spec_replicas(stss[last.target])
  /\ found_spec_replicas(stss[last.target]) >= 1

\* C22: a Pool reconcile that finds D' == O' and a StatefulSet whose
\* spec.replicas are not its status.current_replicas changes no object and
\* returns no requeue.
C22_RolloutGuard ==
  [][ \A n \in DOMAIN pools :
        ( /\ last'.who = "gsp" /\ last'.target = n
          /\ DesiredIsObserved(n)
          /\ unwrap_or(stss[n].spec.replicas, 1)
               # unwrap_or(stss[n].status.current_replicas, 0) )
        => /\ stss' = stss /\ cms' = cms /\ pools' = pools
           /\ last'.requeue_after = NONE ]_vars

\* C22, the case: the reconcile found the rollout in flight while the Pool
\* asks for more replicas than the StatefulSet has.
C22_Witness ==
  /\ last.who = "gsp" /\ last.branch = "rollout"
  /\ DesiredReplicas(last.target) > found_spec_replicas(stss[last.target])
  /\ stss[last.target].status.current_replicas # found_spec_replicas(stss[last.target])

\* C23: a reconcile that finds the current Pool with the GratefulSet's spec,
\* replicas included, and old Pools that all have replicas 0, deletes the old
\* Pools and leaves every other Pool as it is.
C23_OrphanCleanupFrame ==
  [][ ( /\ last'.who = "gs"
        /\ \E n \in CurListed(pools) : pools[n].spec.sts_spec = gs.spec.sts_spec
        /\ OldPools(pools) # {}
        /\ OldPositive(pools) = {} )
      => /\ DOMAIN pools' = DOMAIN pools \ OldPools(pools)
         /\ \A n \in DOMAIN pools' : pools'[n] = pools[n] ]_vars

\* C23, the case: the reconcile has deleted an old Pool (its StatefulSet is
\* still there) and the current Pool, with the GratefulSet's spec at D >= 1
\* replicas, is the only one left.
C23_Witness ==
  /\ last.who = "gs" /\ last.branch = "delete_old"
  /\ total_desired(gs) >= 1
  /\ DOMAIN pools = CurListed(pools)
  /\ \E n \in DOMAIN pools : pools[n].spec.sts_spec = gs.spec.sts_spec
  /\ DOMAIN stss \ DOMAIN pools # {}

\* The digits of format!("{:x}", n), most significant first (the characters
\* 0-9 and a-f are ordered as their values are).
RECURSIVE HexSeq(_)
HexSeq(n) == IF n < 16 THEN << n >> ELSE Append(HexSeq(n \div 16), n % 16)

\* a is before b in lexicographic order.
LexLess(a, b) ==
  \E i \in 1 .. (min(Len(a), Len(b)) + 1) :
    /\ \A j \in 1 .. (i - 1) : a[j] = b[j]
    /\ \/ i > Len(a) /\ i <= Len(b)
       \/ i <= Len(a) /\ i <= Len(b) /\ a[i] < b[i]

\* The name of the Pool n of ps is before that of m: the names are
\* <parent>-<hex of checksum>, with the same parent.
NameBefore(ps, n, m) ==
  LexLess(HexSeq(checksum(ps[n].spec.sts_spec)), HexSeq(checksum(ps[m].spec.sts_spec)))

\* C24: a scale-down step taken while old Pools have replicas > 0 patches
\* the one of them with the lexicographically smallest name, whatever the
\* order of the list.
C24_SmallestNameFirst ==
  [][ ( /\ last'.who = "manager" /\ last'.branch = "scale_down"
        /\ OldPositive(pools) # {} )
      => /\ last'.target \in OldPositive(pools)
         /\ \A m \in OldPositive(pools) \ { last'.target } :
              NameBefore(pools, last'.target, m) ]_vars

\* C25: for D >= 1, a reconcile that finds the current Pool with the
\* GratefulSet's template, replicas other than D, ready_total >= D and no old Pool with
\* replicas > 0 leaves the current Pool with one replica less (not below 0);
\* and no Pool has negative replicas.
C25_FallbackDecrementsCurrent ==
  [][ /\ last'.who = "gs" =>
          \A n \in CurListed(pools) :
            ( /\ without_replicas(pools[n].spec.sts_spec) = without_replicas(gs.spec.sts_spec)
              /\ pools[n].spec.sts_spec.replicas # NONE
              /\ pools[n].spec.sts_spec.replicas # gs.spec.sts_spec.replicas
              /\ total_desired(gs) >= 1
              /\ ReadyTotal(pools) >= total_desired(gs)
              /\ OldPositive(pools) = {} )
            => pools'[n].spec.sts_spec.replicas = max(0, pools[n].spec.sts_spec.replicas - 1)
      /\ \A n \in DOMAIN pools' : unwrap_or(pools'[n].spec.sts_spec.replicas, 1) >= 0 ]_vars

\* C26: the spec that the Pool reconciler gives the StatefulSet of a Pool
\* whose template has a pod spec holds an init-container gsp-unlocker that
\* mounts the volume pikach.us-locks at /locks, and a volume of that name
\* whose ConfigMap is <Pool-name>-lock, the ConfigMap the reconciler upserts.
C26_LeaseInjected ==
  [][ \A n \in DOMAIN pools :
        ( /\ last'.who = "gsp" /\ last'.target = n /\ last'.branch = "drift"
          /\ pools[n].spec.sts_spec.template.has_spec )
        => LET t == stss'[n].spec.template IN
           /\ \E i \in 1 .. Len(t.init_containers) :
                /\ t.init_containers[i].name = "gsp-unlocker"
                /\ \E j \in 1 .. Len(t.init_containers[i].volume_mounts) :
                     t.init_containers[i].volume_mounts[j]
                       = [ mount_path |-> "/locks", name |-> "pikach.us-locks" ]
           /\ \E i \in 1 .. Len(t.volumes) :
                /\ t.volumes[i].name = "pikach.us-locks"
                /\ t.volumes[i].config_map = n \o "-lock"
                /\ t.volumes[i].config_map = configmap(pools[n].spec).name ]_vars

\* C27: a Pool reconcile that writes a lease ConfigMap writes the one named
\* <Pool-name>-lock and leaves every other ConfigMap as it is.
C27_LeasePerPool ==
  [][ (last'.who = "gsp" /\ cms' # cms) =>
        \A k \in DOMAIN cms' :
          k # last'.target \o "-lock" => (k \in DOMAIN cms /\ cms'[k] = cms[k]) ]_vars

\* C28: no reconcile of the GratefulSet raises the replicas of the Pool of
\* the current revision above D (or above what they were, where they were
\* above D already).
C28_DeclaredWithinDesired ==
  [][ (last'.who = "gs" /\ Want(gs).name \in DOMAIN pools') =>
        pools'[Want(gs).name].spec.sts_spec.replicas
          <= max(total_desired(gs),
                 IF Want(gs).name \in DOMAIN pools
                 THEN pools[Want(gs).name].spec.sts_spec.replicas ELSE 0) ]_vars

====
